---- MODULE Spec2Model ----
(***************************************************************************)
(* ivy-lint ordering formatters.                                           *)
(*                                                                         *)
(* A source file is a sequence of lines.  One element of the sequence is   *)
(* either a comment line (its text starts with "#") or the whole text of   *)
(* one top-level statement.  The two physical lines of a section header    *)
(* written by the formatter are one element.  ast.parse is the table `ast` *)
(* from statement text to syntax-tree node; black.format_str changes blank *)
(* lines and spacing only, which this representation does not carry.       *)
(***************************************************************************)
EXTENDS Integers, Sequences, FiniteSets, TLC

\* Longest source file, in lines, that Init draws.
MaxLen == 4
\* Most comment lines in a source file that Init draws.
MaxComments == 1

----------------------------------------------------------------------------
(* Strings *)

\* The characters of identifiers and of the "," of joined targets, in
\* code-point order, for Python's str comparison.
Ascii == ",0123456789ABCDEFGHIJKLMNOPQRSTUVWXYZ_abcdefghijklmnopqrstuvwxyz"

Ord(ch) == CHOOSE i \in 1..Len(Ascii) : SubSeq(Ascii, i, i) = ch

RECURSIVE StrLessFrom(_, _, _)
StrLessFrom(a, b, i) ==
    IF i > Len(b) THEN FALSE
    ELSE IF i > Len(a) THEN TRUE
    ELSE IF SubSeq(a, i, i) = SubSeq(b, i, i) THEN StrLessFrom(a, b, i + 1)
    ELSE Ord(SubSeq(a, i, i)) < Ord(SubSeq(b, i, i))

\* Python: a < b on str.
StrLess(a, b) == StrLessFrom(a, b, 1)

\* Python: name in code (substring test).
StrIn(name, code) ==
    IF name = "" THEN TRUE
    ELSE \E i \in 1..(Len(code) - Len(name) + 1) :
             SubSeq(code, i, i + Len(name) - 1) = name

\* Python: code.startswith(prefix).
StartsWith(code, prefix) ==
    /\ Len(code) >= Len(prefix)
    /\ (prefix = "" \/ SubSeq(code, 1, Len(prefix)) = prefix)

RECURSIVE Join(_, _)
\* Python: sep.join(strs).
Join(sep, strs) ==
    IF strs = <<>> THEN ""
    ELSE IF Len(strs) = 1 THEN strs[1]
    ELSE strs[1] \o sep \o Join(sep, Tail(strs))

RECURSIVE Flatten(_)
\* The concatenation of a sequence of sequences.
Flatten(seqs) ==
    IF seqs = <<>> THEN <<>> ELSE Head(seqs) \o Flatten(Tail(seqs))

----------------------------------------------------------------------------
(* Syntax trees *)

\* Fields shared by every node; a constructor overrides what its type has.
Node == [type |-> "", name |-> "", names |-> <<>>, targets |-> <<>>,
         value |-> <<>>, s |-> "", decorator_list |-> <<>>, bases |-> <<>>,
         body |-> <<>>]

\* Expression nodes.
Name(id) == [type |-> "Name", id |-> id, attr |-> ""]
Attribute(id, attr) == [type |-> "Attribute", id |-> id, attr |-> attr]

\* Statements of a function, class or try body.
Pass == [type |-> "Pass", id |-> ""]
Ellipsis == [type |-> "Expr", id |-> ""]
Return(id) == [type |-> "Return", id |-> id]
ImportStmt(module) == [type |-> "Import", id |-> module]

Import(names) == [Node EXCEPT !.type = "Import", !.names = names]
Try(body) == [Node EXCEPT !.type = "Try", !.body = body]
\* value: the Name ids of the right-hand side, in ast.iter_child_nodes order.
Assign(targets, value) ==
    [Node EXCEPT !.type = "Assign", !.targets = targets, !.value = value]
Str(s) == [Node EXCEPT !.type = "Expr", !.s = s]
FunctionDef(name, decorator_list, body) ==
    [Node EXCEPT !.type = "FunctionDef", !.name = name,
                 !.decorator_list = decorator_list, !.body = body]
ClassDef(name, bases, body) ==
    [Node EXCEPT !.type = "ClassDef", !.name = name, !.bases = bases,
                 !.body = body]

\* The section headers the formatter writes, each with its underline.
HELPERS_HEADER == "# --- Helpers --- #\n# --------------- #"
MAIN_HEADER == "# --- Main --- #\n# ------------ #"
\* The first of the section headers of the extended pass.
ARRAY_API_HEADER == "# Array API Standard"
NOTE == "# note"

DOCSTRING == "\"\"\"doc\"\"\""
EMPTY_STRING == "\"\""
TRY_IMPORT == "try:\n    import numpy\nexcept ImportError:\n    pass"
HELPER == "def _helper(): ..."
PUBLIC == "def public(): ..."
HELPER_G == "def _g():\n    return q"
COMPOSITE == "@st.composite\ndef draw(): pass"
CLASS_B == "class B: pass"
CLASS_A == "class A(B): pass"
\* Further classes of a hierarchy: a derived class of A, a class whose base
\* is not of the module, and a B that closes a cycle with A.
CLASS_D == "class D(A): pass"
CLASS_E == "class E(External): pass"
CLASS_B_A == "class B(A): pass"

\* An assignment to an attribute path and a second public function, drawn
\* by the section files only.
OBJ_ATTR == "obj.attr = 1"
ADD == "def add(): ..."

\* ast.parse on the text of one top-level statement.
ast ==
    "import os" :> Import(<<"os">>)
 @@ TRY_IMPORT :> Try(<<ImportStmt("numpy")>>)
 @@ DOCSTRING :> Str("doc")
 @@ EMPTY_STRING :> Str("")
 @@ "x = 1" :> Assign(<<Name("x")>>, <<>>)
 @@ "z = x" :> Assign(<<Name("z")>>, <<"x">>)
 @@ "q = z" :> Assign(<<Name("q")>>, <<"z">>)
 @@ "v = public()" :> Assign(<<Name("v")>>, <<"public">>)
 @@ HELPER :> FunctionDef("_helper", <<>>, <<Ellipsis>>)
 @@ HELPER_G :> FunctionDef("_g", <<>>, <<Return("q")>>)
 @@ PUBLIC :> FunctionDef("public", <<>>, <<Ellipsis>>)
 @@ COMPOSITE :> FunctionDef("draw", <<Attribute("st", "composite")>>, <<Pass>>)
 @@ CLASS_B :> ClassDef("B", <<>>, <<Pass>>)
 @@ CLASS_A :> ClassDef("A", <<Name("B")>>, <<Pass>>)
 @@ CLASS_D :> ClassDef("D", <<Name("A")>>, <<Pass>>)
 @@ CLASS_E :> ClassDef("E", <<Name("External")>>, <<Pass>>)
 @@ CLASS_B_A :> ClassDef("B", <<Name("A")>>, <<Pass>>)
 @@ OBJ_ATTR :> Assign(<<Attribute("obj", "attr")>>, <<>>)
 @@ ADD :> FunctionDef("add", <<>>, <<Ellipsis>>)

\* The statements source files are drawn from; the further classes of a
\* hierarchy are drawn by the hierarchy files only, the attribute assignment
\* and the second public function by the section files only.
Statements == DOMAIN ast \ {CLASS_D, CLASS_E, CLASS_B_A, OBJ_ATTR, ADD}
Comments == {HELPERS_HEADER, MAIN_HEADER, ARRAY_API_HEADER, NOTE}
Lines == Statements \cup Comments

\* stripped.startswith("#") of a line.
IsComment(line) == StartsWith(line, "#")

----------------------------------------------------------------------------
(* ast.dump *)

DumpName(id) == "Name(id='" \o id \o "', ctx=Load())"

DumpExpr(e) ==
    IF e.type = "Name" THEN DumpName(e.id)
    ELSE "Attribute(value=" \o DumpName(e.id) \o ", attr='" \o e.attr
         \o "', ctx=Load())"

DumpBodyStmt(b) ==
    CASE b.type = "Pass" -> "Pass()"
      [] b.type = "Expr" -> "Expr(value=Constant(value=Ellipsis))"
      [] b.type = "Return" -> "Return(value=" \o DumpName(b.id) \o ")"
      [] b.type = "Import" -> "Import(names=[alias(name='" \o b.id \o "')])"

\* ast.dump of a list of expressions and of a list of body statements.
DumpExprs(xs) == Join(", ", [i \in 1..Len(xs) |-> DumpExpr(xs[i])])

DumpBody(xs) == Join(", ", [i \in 1..Len(xs) |-> DumpBodyStmt(xs[i])])

\* ast.dump of a FunctionDef or ClassDef node.
Dump(node) ==
    IF node.type = "FunctionDef"
    THEN "FunctionDef(name='" \o node.name
         \o "', args=arguments(posonlyargs=[], args=[], kwonlyargs=[], kw_defaults=[], defaults=[]), body=["
         \o DumpBody(node.body) \o "], decorator_list=["
         \o DumpExprs(node.decorator_list) \o "])"
    ELSE "ClassDef(name='" \o node.name \o "', bases=["
         \o DumpExprs(node.bases) \o "], keywords=[], body=["
         \o DumpBody(node.body) \o "], decorator_list=["
         \o DumpExprs(node.decorator_list) \o "])"

----------------------------------------------------------------------------
(* function_ordering.py: helpers *)

\* re.sub of HEADER_PATTERN on one line: the header blocks it matches.
HEADER_PATTERN(line) == line \in {HELPERS_HEADER, MAIN_HEADER}

_remove_existing_headers(source_code) ==
    SelectSeq(source_code, LAMBDA line : ~HEADER_PATTERN(line))

\* The index of the first line of the run of comment lines that ends just
\* above line i.
RECURSIVE LeadingStart(_, _)
LeadingStart(source_code, i) ==
    IF i > 1 /\ IsComment(source_code[i - 1])
    THEN LeadingStart(source_code, i - 1)
    ELSE i

\* (code, node) for the statement on line i; code is a sequence of lines.
_extract_node_with_leading_comments(source_code, i) ==
    [code |-> SubSeq(source_code, LeadingStart(source_code, i), i),
     node |-> ast[source_code[i]]]

\* The lines of tree.body, in order.
RECURSIVE BodyLines(_, _)
BodyLines(source_code, i) ==
    IF i > Len(source_code) THEN <<>>
    ELSE IF IsComment(source_code[i]) THEN BodyLines(source_code, i + 1)
    ELSE <<i>> \o BodyLines(source_code, i + 1)

_extract_all_nodes_with_comments(source_code) ==
    LET body == BodyLines(source_code, 1)
    IN [k \in 1..Len(body) |->
           _extract_node_with_leading_comments(source_code, body[k])]

\* The statement text a (code, node) item ends with.
Text(item) == item.code[Len(item.code)]

IsDef(node) == node.type \in {"FunctionDef", "ClassDef"}

has_st_composite_decorator(node) ==
    \E k \in 1..Len(node.decorator_list) :
        /\ node.decorator_list[k].type = "Attribute"
        /\ node.decorator_list[k].attr = "composite"

\* node.name.startswith("_") or has_st_composite_decorator(node)
IsHelper(node) ==
    StartsWith(node.name, "_") \/ has_st_composite_decorator(node)

contains_any_name(code, names) == \E k \in 1..Len(names) : StrIn(names[k], code)

\* [t.id for t in node.targets if isinstance(t, ast.Name)]
NameTargets(node) ==
    LET names == SelectSeq(node.targets, LAMBDA t : t.type = "Name")
    IN [k \in 1..Len(names) |-> names[k].id]

\* contains_any_name(ast.dump(node), [target_str]) for every node and every
\* joined target list of the table, computed once: the target strings each
\* definition's dump contains.
DumpContains ==
    [node \in {ast[t] : t \in DOMAIN ast} |->
        {target_str \in {Join(",", NameTargets(ast[t])) : t \in DOMAIN ast} :
            IsDef(node) /\ contains_any_name(Dump(node), <<target_str>>)}]

\* The positions (from 1) of the definitions with a leading underscore whose
\* dump contains assignment_name.
RelatedPositions(assignment_name, nodes_with_comments) ==
    {k \in 1..Len(nodes_with_comments) :
        /\ IsDef(nodes_with_comments[k].node)
        /\ StartsWith(nodes_with_comments[k].node.name, "_")
        /\ assignment_name \in DumpContains[nodes_with_comments[k].node]}

Min(S) == CHOOSE m \in S : \A n \in S : m <= n

\* The name of the related helper, "" for None.
related_helper_function(assignment_name, nodes_with_comments) ==
    LET found == RelatedPositions(assignment_name, nodes_with_comments)
    IN IF found = {} THEN ""
       ELSE nodes_with_comments[Min(found)].node.name

_is_assignment_target_an_attribute(node) ==
    /\ node.type = "Assign"
    /\ \E k \in 1..Len(node.targets) : node.targets[k].type = "Attribute"

\* extract_names_from_assignment(node): the Name ids of node.value.
extract_names_from_assignment(node) == node.value

Range(seq) == {seq[k] : k \in 1..Len(seq)}

----------------------------------------------------------------------------
(* class_build_dependency_graph and nx.topological_sort *)

\* A DiGraph: nodes and edges in insertion order.
AddNode(graph, n) ==
    IF n \in Range(graph.nodes) THEN graph
    ELSE [graph EXCEPT !.nodes = Append(@, n)]

AddEdge(graph, u, v) ==
    LET g == AddNode(AddNode(graph, u), v)
    IN IF <<u, v>> \in Range(g.edges) THEN g
       ELSE [g EXCEPT !.edges = Append(@, <<u, v>>)]

RECURSIVE AddBases(_, _, _)
AddBases(graph, name, bases) ==
    IF bases = <<>> THEN graph
    ELSE AddBases(
             IF Head(bases).type = "Name"
             THEN AddEdge(graph, Head(bases).id, name)
             ELSE graph,
             name, Tail(bases))

RECURSIVE ClassGraph(_, _)
ClassGraph(graph, nodes_with_comments) ==
    IF nodes_with_comments = <<>> THEN graph
    ELSE LET node == Head(nodes_with_comments).node
         IN ClassGraph(
                IF node.type = "ClassDef"
                THEN AddBases(AddNode(graph, node.name), node.name, node.bases)
                ELSE graph,
                Tail(nodes_with_comments))

class_build_dependency_graph(nodes_with_comments) ==
    ClassGraph([nodes |-> <<>>, edges |-> <<>>], nodes_with_comments)

InDegree(graph, v) == Cardinality({e \in Range(graph.edges) : e[2] = v})

\* The children visited while a generation is processed, in visiting order.
RECURSIVE Visits(_, _)
Visits(graph, generation) ==
    IF generation = <<>> THEN <<>>
    ELSE LET out == SelectSeq(graph.edges, LAMBDA e : e[1] = Head(generation))
         IN [k \in 1..Len(out) |-> out[k][2]] \o Visits(graph, Tail(generation))

\* indegree_map[child] -= 1 for every visit; a child that reaches 0 joins
\* the next generation.
RECURSIVE Relax(_, _, _)
Relax(visits, indegree_map, zero_indegree) ==
    IF visits = <<>> THEN [indegree_map |-> indegree_map, zero_indegree |-> zero_indegree]
    ELSE LET child == Head(visits)
             d == indegree_map[child] - 1
         IN Relax(Tail(visits), [indegree_map EXCEPT ![child] = d],
                  IF d = 0 THEN Append(zero_indegree, child) ELSE zero_indegree)

RECURSIVE Generations(_, _, _)
Generations(graph, indegree_map, zero_indegree) ==
    IF zero_indegree = <<>> THEN <<>>
    ELSE LET r == Relax(Visits(graph, zero_indegree), indegree_map, <<>>)
         IN zero_indegree \o Generations(graph, r.indegree_map, r.zero_indegree)

\* list(graph.nodes()): the nodes as they were added, in no order of edges.
NodesAsAdded(graph) == graph.nodes

\* list(nx.topological_sort(graph)), when it does not raise.
topological_sort(graph) ==
    Generations(graph,
                [v \in Range(graph.nodes) |-> InDegree(graph, v)],
                SelectSeq(graph.nodes, LAMBDA v : InDegree(graph, v) = 0))

\* nx.topological_sort raises NetworkXUnfeasible: some node is on a cycle.
NetworkXUnfeasible(graph) == Len(topological_sort(graph)) < Len(graph.nodes)

\* sorted_classes.index(name), from 0; len(sorted_classes) on ValueError.
ClassIndex(sorted_classes, name) ==
    IF name \in Range(sorted_classes)
    THEN Min({k \in 1..Len(sorted_classes) : sorted_classes[k] = name}) - 1
    ELSE Len(sorted_classes)

\* The second loop of assignment_build_dependency_graph for one Assign node:
\* an edge from every right-hand name that is a node to every Name target.
RECURSIVE AddDependencies(_, _, _)
AddDependencies(graph, targets, right_side_names) ==
    IF targets = <<>> THEN graph
    ELSE LET names == SelectSeq(right_side_names,
                                LAMBDA name : name \in Range(graph.nodes))
             RECURSIVE Edges(_, _)
             Edges(g, ns) ==
                 IF ns = <<>> THEN g
                 ELSE Edges(AddEdge(g, Head(ns), Head(targets)), Tail(ns))
         IN AddDependencies(Edges(graph, names), Tail(targets), right_side_names)

RECURSIVE AssignmentNodes(_, _)
AssignmentNodes(graph, nodes_with_comments) ==
    IF nodes_with_comments = <<>> THEN graph
    ELSE LET node == Head(nodes_with_comments).node
             RECURSIVE Targets(_, _)
             Targets(g, ts) ==
                 IF ts = <<>> THEN g
                 ELSE Targets(AddNode(g, Head(ts)), Tail(ts))
         IN AssignmentNodes(
                IF node.type = "Assign" THEN Targets(graph, NameTargets(node))
                ELSE graph,
                Tail(nodes_with_comments))

RECURSIVE AssignmentEdges(_, _)
AssignmentEdges(graph, nodes_with_comments) ==
    IF nodes_with_comments = <<>> THEN graph
    ELSE LET node == Head(nodes_with_comments).node
         IN AssignmentEdges(
                IF node.type = "Assign"
                THEN AddDependencies(graph, NameTargets(node),
                                     extract_names_from_assignment(node))
                ELSE graph,
                Tail(nodes_with_comments))

assignment_build_dependency_graph(nodes_with_comments) ==
    AssignmentEdges(
        AssignmentNodes([nodes |-> <<>>, edges |-> <<>>], nodes_with_comments),
        nodes_with_comments)

----------------------------------------------------------------------------
(* FunctionOrderingFormatter._rearrange_functions_and_classes *)

all_assignments(nodes_with_comments) ==
    UNION {Range(NameTargets(nodes_with_comments[k].node)) :
              k \in {j \in 1..Len(nodes_with_comments) :
                        nodes_with_comments[j].node.type = "Assign"}}

_is_assignment_dependent_on_assignment(node, nodes_with_comments) ==
    /\ node.type = "Assign"
    /\ \E name \in all_assignments(nodes_with_comments) :
           name \in Range(extract_names_from_assignment(node))

_is_assignment_dependent_on_function_or_class(node, nodes_with_comments) ==
    /\ node.type = "Assign"
    /\ \E k \in 1..Len(nodes_with_comments) :
           /\ IsDef(nodes_with_comments[k].node)
           /\ nodes_with_comments[k].node.name
                  \in Range(extract_names_from_assignment(node))

\* The position, from 0, of the first definition called name.
FunctionPosition(name, nodes_with_comments) ==
    Min({k \in 1..Len(nodes_with_comments) :
            /\ IsDef(nodes_with_comments[k].node)
            /\ nodes_with_comments[k].node.name = name}) - 1

\* The key of the Assign branch of sort_key.
AssignKey(node, nodes_with_comments) ==
    LET target_str == Join(",", NameTargets(node))
        related_function ==
            related_helper_function(target_str, nodes_with_comments)
    IN IF related_function # ""
       THEN <<60, FunctionPosition(related_function, nodes_with_comments),
              target_str>>
       ELSE IF _is_assignment_target_an_attribute(node)
       THEN <<55, 0, target_str>>
       ELSE IF _is_assignment_dependent_on_assignment(node, nodes_with_comments)
       THEN <<70, 0, target_str>>
       ELSE IF _is_assignment_dependent_on_function_or_class(
                   node, nodes_with_comments)
       THEN <<60, 0, target_str>>
       ELSE <<10, 0, target_str>>

\* sort_key(item) in the closure of one call: a triple whose first component
\* is ten times the source's (5.5 is written 55).
sort_key(item, nodes_with_comments, sorted_classes) ==
    LET node == item.node
    IN IF node.type = "Import" THEN <<0, 0, "">>
       ELSE IF /\ node.type = "Try"
               /\ \E k \in 1..Len(node.body) : node.body[k].type = "Import"
       THEN <<0, 1, "">>
       ELSE IF node.type = "Assign" THEN AssignKey(node, nodes_with_comments)
       ELSE IF node.type = "ClassDef"
       THEN <<20, ClassIndex(sorted_classes, node.name), node.name>>
       ELSE IF node.type = "FunctionDef"
       THEN IF IsHelper(node) THEN <<40, 0, node.name>>
            ELSE <<50, 0, node.name>>
       ELSE <<80, 0, node.name>>

\* Python's order on the key tuples.
KeyLess(a, b) ==
    \/ a[1] < b[1]
    \/ a[1] = b[1] /\ a[2] < b[2]
    \/ a[1] = b[1] /\ a[2] = b[2] /\ StrLess(a[3], b[3])

\* The positions of keys in sorted order; sorted() is stable.
RECURSIVE Insert(_, _, _)
Insert(order, i, keys) ==
    IF order = <<>> THEN <<i>>
    ELSE IF KeyLess(keys[i], keys[Head(order)]) THEN <<i>> \o order
    ELSE <<Head(order)>> \o Insert(Tail(order), i, keys)

RECURSIVE SortOrder(_, _)
SortOrder(n, keys) ==
    IF n = 0 THEN <<>> ELSE Insert(SortOrder(n - 1, keys), n, keys)

\* sorted(items, key=...) with the keys given per position.
Sorted(items, keys) ==
    LET order == SortOrder(Len(items), keys)
    IN [k \in 1..Len(items) |-> items[order[k]]]

\* The keys of the first pass, per position of nodes_with_comments.
Keys(nodes_with_comments) ==
    LET sorted_classes ==
            topological_sort(class_build_dependency_graph(nodes_with_comments))
    IN [k \in 1..Len(nodes_with_comments) |->
           sort_key(nodes_with_comments[k], nodes_with_comments, sorted_classes)]

IsStr(node) == node.type = "Expr"

\* The module docstring that is written first, "" when none is.
Docstring(nodes_with_comments) ==
    IF nodes_with_comments # <<>> /\ IsStr(nodes_with_comments[1].node)
    THEN nodes_with_comments[1].node.s
    ELSE ""

has_helper_functions(nodes_sorted) ==
    \E k \in 1..Len(nodes_sorted) :
        /\ nodes_sorted[k].node.type = "FunctionDef"
        /\ StartsWith(nodes_sorted[k].node.name, "_")

\* The loop over nodes_sorted that fills reordered_code_list.
RECURSIVE Emit(_, _, _, _)
Emit(nodes_sorted, last_function_type, docstring_added, has_helpers) ==
    IF nodes_sorted = <<>> THEN <<>>
    ELSE LET code == Head(nodes_sorted).code
             node == Head(nodes_sorted).node
             current_function_type ==
                 IF node.type # "FunctionDef" THEN "None"
                 ELSE IF IsHelper(node) THEN "helper" ELSE "api"
             header ==
                 IF /\ current_function_type = "helper"
                    /\ last_function_type # "helper"
                 THEN <<HELPERS_HEADER>>
                 ELSE IF /\ current_function_type = "api"
                         /\ last_function_type # "api"
                         /\ has_helpers
                 THEN <<MAIN_HEADER>>
                 ELSE <<>>
         IN IF docstring_added /\ IsStr(node)
            THEN Emit(Tail(nodes_sorted), last_function_type, docstring_added,
                      has_helpers)
            ELSE header \o code
                 \o Emit(Tail(nodes_sorted),
                         IF current_function_type = "None"
                         THEN last_function_type ELSE current_function_type,
                         docstring_added, has_helpers)

\* The call with extended = False: lines 329 to 544.
StandardPass(original_source_code) ==
    LET source_code == _remove_existing_headers(original_source_code)
        nodes_with_comments == _extract_all_nodes_with_comments(source_code)
        nodes_sorted == Sorted(nodes_with_comments, Keys(nodes_with_comments))
        docstring == Docstring(nodes_with_comments)
    IN (IF docstring # "" THEN <<"\"\"\"" \o docstring \o "\"\"\"">> ELSE <<>>)
       \o Emit(nodes_sorted, "None", docstring # "",
               has_helper_functions(nodes_sorted))

----------------------------------------------------------------------------
(* FunctionOrderingFormatter._extended_rearrange_functions_and_classes *)

section_headers ==
    <<"# Array API Standard", "# Autograd", "# Optimizer Steps",
      "# Optimizer Updates", "# Array Printing", "# Device Queries",
      "# Retrieval", "# Conversions", "# Memory", "# Utilization",
      "# Availability", "# Default Device", "# Device Allocation",
      "# Function Splitting", "# Profiler">>

\* The first header of section_headers that code.strip() starts with, ""
\* when there is none.
MatchingHeader(code) ==
    LET hits == {k \in 1..Len(section_headers) :
                    StartsWith(code[1], section_headers[k])}
    IN IF hits = {} THEN "" ELSE section_headers[Min(hits)]

\* sorted_sections[header] = section on a dict kept as a sequence of
\* (header, section) in insertion order.
SetItem(sorted_sections, header, section) ==
    IF \E k \in 1..Len(sorted_sections) : sorted_sections[k].header = header
    THEN [k \in 1..Len(sorted_sections) |->
             IF sorted_sections[k].header = header
             THEN [header |-> header, section |-> section]
             ELSE sorted_sections[k]]
    ELSE Append(sorted_sections, [header |-> header, section |-> section])

\* The loop of lines 596 to 606 over the nodes of the original source.
RECURSIVE Sections(_, _, _, _)
Sections(nodes_with_comments, current_header, current_section, sorted_sections) ==
    IF nodes_with_comments = <<>> THEN sorted_sections
    ELSE LET item == Head(nodes_with_comments)
             rest == Tail(nodes_with_comments)
         IN IF item.node.type # "FunctionDef" \/ IsHelper(item.node)
            THEN Sections(rest, current_header, current_section, sorted_sections)
            ELSE LET found == MatchingHeader(item.code)
                     header == IF found # "" THEN found ELSE current_header
                     section ==
                         Append(IF found # "" THEN <<>> ELSE current_section,
                                item)
                 IN Sections(rest, header, section,
                             SetItem(sorted_sections, header, section))

\* pattern.sub("", code) for the pattern \s?<header>\s?#? on a code whose
\* lines either are the header or do not contain it.  The match takes the
\* header line, the line break before it (the line above then runs on into
\* what follows), the line break after it, and the "#" of a comment line
\* that follows (InvalidCode tells that case apart).
RECURSIVE RemoveHeader(_, _)
RemoveHeader(code, header) ==
    IF code = <<>> THEN <<>>
    ELSE IF Head(code) = header THEN RemoveHeader(Tail(code), header)
    ELSE IF Len(code) >= 3 /\ code[2] = header
    THEN RemoveHeader(<<code[1] \o code[3]>> \o Tail(Tail(Tail(code))), header)
    ELSE <<Head(code)>> \o RemoveHeader(Tail(code), header)

\* The substitution leaves a comment line without its "#": text that
\* black.format_str cannot parse.
InvalidCode(code, header) ==
    \E k \in 1..(Len(code) - 1) : code[k] = header /\ IsComment(code[k + 1])

\* reordered_code_list_main, given the sections and the first pass's keys.
RECURSIVE MainList(_, _, _)
MainList(sorted_sections, first_pass_nodes, sorted_classes) ==
    IF sorted_sections = <<>> THEN <<>>
    ELSE LET header == Head(sorted_sections).header
             section == Head(sorted_sections).section
             sorted_section ==
                 Sorted(section,
                        [k \in 1..Len(section) |->
                            sort_key(section[k], first_pass_nodes,
                                     sorted_classes)])
             codes ==
                 [k \in 1..Len(sorted_section) |->
                     IF header = "" THEN sorted_section[k].code
                     ELSE RemoveHeader(sorted_section[k].code, header)]
         IN (IF header = "" THEN <<>> ELSE <<header>>)
            \o Flatten(codes)
            \o MainList(Tail(sorted_sections), first_pass_nodes, sorted_classes)

\* The loop of lines 629 to 645 over the nodes of the first pass's output:
\* (reordered_code_list_before, reordered_code_list_after).
RECURSIVE Split(_, _, _, _)
Split(nodes_with_comments, previous_was_main, before, after) ==
    IF nodes_with_comments = <<>> THEN [before |-> before, after |-> after]
    ELSE LET code == Head(nodes_with_comments).code
             node == Head(nodes_with_comments).node
             rest == Tail(nodes_with_comments)
         IN IF node.type = "Assign"
            THEN IF previous_was_main
                 THEN Split(rest, previous_was_main, before, after \o code)
                 ELSE Split(rest, previous_was_main, before \o code, after)
            ELSE IF node.type = "FunctionDef"
            THEN IF IsHelper(node)
                 THEN Split(rest, previous_was_main, before \o code, after)
                 ELSE Split(rest,
                            previous_was_main \/ StartsWith(code[1], "# --- Main"),
                            before, after)
            ELSE Split(rest, previous_was_main, before \o code, after)

\* sorted_sections after the loop of lines 596 to 606.
SortedSections(original_source_code) ==
    Sections(_extract_all_nodes_with_comments(original_source_code),
             "", <<>>, <<>>)

_extended_rearrange_functions_and_classes(original_source_code, reordered_code) ==
    LET first_pass_nodes ==
            _extract_all_nodes_with_comments(
                _remove_existing_headers(original_source_code))
        sorted_classes ==
            topological_sort(class_build_dependency_graph(first_pass_nodes))
        reordered_code_list_main ==
            MainList(SortedSections(original_source_code), first_pass_nodes,
                     sorted_classes)
        lists ==
            Split(_extract_all_nodes_with_comments(reordered_code), FALSE,
                  <<>>, <<>>)
    IN lists.before \o reordered_code_list_main \o lists.after

\* The value the call returns when nothing is raised.
_rearrange_functions_and_classes(original_source_code, is_extended) ==
    IF is_extended
    THEN _extended_rearrange_functions_and_classes(
             original_source_code, StandardPass(original_source_code))
    ELSE StandardPass(original_source_code)

\* black.format_str on line 653 raises InvalidInput: a section's code is no
\* longer Python once its header is taken out.
InvalidInput(original_source_code) ==
    LET sorted_sections == SortedSections(original_source_code)
    IN \E k \in 1..Len(sorted_sections) :
           /\ sorted_sections[k].header # ""
           /\ \E j \in 1..Len(sorted_sections[k].section) :
                  InvalidCode(sorted_sections[k].section[j].code,
                              sorted_sections[k].header)

\* The call raises: list(nx.topological_sort(...)) on line 336, or
\* black.format_str at the end of the extended pass.
Raises(original_source_code, is_extended) ==
    \/ NetworkXUnfeasible(
           class_build_dependency_graph(
               _extract_all_nodes_with_comments(
                   _remove_existing_headers(original_source_code))))
    \/ is_extended /\ InvalidInput(original_source_code)

----------------------------------------------------------------------------
(* ClassFunctionOrderingFormatter: the body of one class *)

\* The string literals the formatter puts above the two blocks of methods.
PROPERTIES == "# Properties #\n# ---------- #"
INSTANCE_METHODS == "# Instance Methods #\n# ---------------- #"

\* Python: code.endswith(suffix).
EndsWith(code, suffix) ==
    /\ Len(code) >= Len(suffix)
    /\ (suffix = ""
        \/ SubSeq(code, Len(code) - Len(suffix) + 1, Len(code)) = suffix)

RECURSIVE Escape(_)
\* The characters of a string as repr writes them.
Escape(s) ==
    IF s = "" THEN ""
    ELSE (IF SubSeq(s, 1, 1) = "\n" THEN "\\n" ELSE SubSeq(s, 1, 1))
             \o Escape(SubSeq(s, 2, Len(s)))

\* ast.unparse on a string literal: the first statement of a body is
\* written as a docstring, any other as repr writes it.
WriteDocstring(s) == "\"\"\"" \o s \o "\"\"\""
Repr(s) == "'" \o Escape(s) \o "'"

\* Members of a class body, written as ast.unparse writes them.
PROPERTY_VALUE == "@property\ndef value(self):\n    ..."
PROPERTY_AREA == "@abc.property\ndef area(self):\n    ..."
VALUE_SETTER == "@value.setter\ndef value(self, v):\n    ..."
COMPUTE == "def compute(self):\n    ..."

\* ast.parse on the text of one statement of a class body.
class_ast ==
    PROPERTY_VALUE :> FunctionDef("value", <<Name("property")>>, <<Ellipsis>>) @@
    PROPERTY_AREA :>
        FunctionDef("area", <<Attribute("abc", "property")>>, <<Ellipsis>>) @@
    VALUE_SETTER :>
        FunctionDef("value", <<Attribute("value", "setter")>>, <<Ellipsis>>) @@
    COMPUTE :> FunctionDef("compute", <<>>, <<Ellipsis>>) @@
    "y = self.value" :> Assign(<<Name("y")>>, <<"self">>) @@
    "a = 1" :> Assign(<<Name("a")>>, <<>>) @@
    "b = a" :> Assign(<<Name("b")>>, <<"a">>) @@
    "K.count = 0" :> Assign(<<Attribute("K", "count")>>, <<>>) @@
    DOCSTRING :> Str("doc") @@
    WriteDocstring(PROPERTIES) :> Str(PROPERTIES) @@
    Repr(INSTANCE_METHODS) :> Str(INSTANCE_METHODS)

ClassStatements == DOMAIN class_ast

\* The names of the right-hand side of an assignment of a class body.
extract_names_from_assignment_inside_class(node) == node.value

\* The same two loops as assignment_build_dependency_graph, over the
\* statements of the class body.
assignment_build_dependency_graph_for_class(body) ==
    assignment_build_dependency_graph(
        [k \in 1..Len(body) |-> [code |-> <<>>, node |-> body[k]]])

has_property_decorators(node) ==
    \E k \in 1..Len(node.decorator_list) :
        LET decorator == node.decorator_list[k]
        IN /\ decorator.type = "Attribute"
           /\ \/ EndsWith(decorator.attr, ".setter")
              \/ EndsWith(decorator.attr, ".getter")
              \/ decorator.attr = "property"

\* set(graph.nodes()) - set(graph.edges()): a node is a name and an edge is
\* a pair of names, so the difference takes nothing away.
dependent_assignments(graph) == Range(graph.nodes)

independent_assignments(graph) ==
    Range(graph.nodes) \ dependent_assignments(graph)

\* The four loops over the body of one class.
reordered_nodes(nodes_within_class) ==
    LET graph == assignment_build_dependency_graph_for_class(nodes_within_class)
        AssignIn(names) ==
            SelectSeq(nodes_within_class,
                      LAMBDA inner_node :
                          /\ inner_node.type = "Assign"
                          /\ inner_node.targets[1].type = "Name"
                          /\ inner_node.targets[1].id \in names)
        Functions(property) ==
            SelectSeq(nodes_within_class,
                      LAMBDA inner_node :
                          /\ inner_node.type = "FunctionDef"
                          /\ has_property_decorators(inner_node) = property)
    IN AssignIn(independent_assignments(graph))
           \o <<Str(PROPERTIES)>> \o Functions(TRUE)
           \o <<Str(INSTANCE_METHODS)>> \o Functions(FALSE)
           \o AssignIn(dependent_assignments(graph))

\* ast.unparse on the statements of a class body.
unparse(body) ==
    [k \in 1..Len(body) |->
        IF IsStr(body[k])
        THEN IF k = 1 THEN WriteDocstring(body[k].s) ELSE Repr(body[k].s)
        ELSE CHOOSE text \in ClassStatements : class_ast[text] = body[k]]

\* ClassFunctionOrderingFormatter._rearrange_functions_and_classes on a
\* module that is one class, given and returned as the lines of its body.
ClassRearranged(source_code) ==
    unparse(reordered_nodes([k \in 1..Len(source_code) |->
                                 class_ast[source_code[k]]]))

----------------------------------------------------------------------------
(* _format_file and BaseFormatter.format *)

\* Paths of files: under the frontends, an __init__.py under the frontends,
\* under the backends, a helper of the tests, outside the ivy trees, and the
\* frontends tree below another directory.
FRONTEND_FILE == "ivy/functional/frontends/torch/math.py"
FRONTEND_INIT == "ivy/functional/frontends/torch/__init__.py"
BACKEND_FILE == "ivy/functional/backends/numpy/math.py"
TEST_HELPER == "ivy_tests/test_ivy/helpers/testing.py"
SETUP_FILE == "setup.py"
NESTED_FILE == "src/ivy/functional/frontends/math.py"

\* The text after a prefix.
Rest(filename, prefix) == SubSeq(filename, Len(prefix) + 1, Len(filename))

\* prefix(?!.*(?:config\.py|__init__\.py)$).* matched at the start.
MatchesTree(filename, prefix) ==
    /\ StartsWith(filename, prefix)
    /\ ~EndsWith(Rest(filename, prefix), "config.py")
    /\ ~EndsWith(Rest(filename, prefix), "__init__.py")

\* FILE_PATTERN.match(filename) is not None; the same pattern in both modules.
FILE_PATTERN(filename) ==
    \/ MatchesTree(filename, "ivy/functional/frontends/")
    \/ /\ StartsWith(filename, "ivy_tests/test_ivy/")
       /\ LET rest == Rest(filename, "ivy_tests/test_ivy/")
          IN /\ ~StrIn("__init__.py", rest)
             /\ ~StrIn("conftest.py", rest)
             /\ ~StrIn("helpers/", rest)
             /\ ~StrIn("test_frontends/config/", rest)

\* EXTENDED_FILE_PATTERN.match(filename) is not None.
EXTENDED_FILE_PATTERN(filename) ==
    \/ MatchesTree(filename, "ivy/functional/backends/")
    \/ MatchesTree(filename, "ivy/functional/stateful/")
    \/ MatchesTree(filename, "ivy/functional/ivy/")

\* A line that is no Python.
INVALID == "def (:"

\* ast.parse raises SyntaxError: a line of the text is neither a comment nor
\* a statement.
SyntaxError(code, statements) ==
    \E k \in 1..Len(code) : ~IsComment(code[k]) /\ code[k] \notin statements

\* What one call of _format_file does: whether it opened the file, printed
\* an error and wrote the file, the text the file holds afterwards, the value
\* returned ("None" for falling off the end) and whether an exception left
\* the call.
Skipped(original_code) ==
    [opened |-> FALSE, printed |-> FALSE, written |-> FALSE,
     text |-> original_code, ret |-> "False", raised |-> FALSE]

\* _format_file with no except clause for SyntaxError.
FormatFileUncaught(filename, original_code) ==
    IF ~(FILE_PATTERN(filename) \/ EXTENDED_FILE_PATTERN(filename))
    THEN Skipped(original_code)
    ELSE IF original_code = <<>>
    THEN [Skipped(original_code) EXCEPT !.opened = TRUE]
    ELSE IF SyntaxError(original_code, DOMAIN ast)
            \/ Raises(original_code, EXTENDED_FILE_PATTERN(filename))
    THEN [Skipped(original_code) EXCEPT !.opened = TRUE, !.ret = "None",
                                        !.raised = TRUE]
    ELSE [opened |-> TRUE, printed |-> FALSE, written |-> TRUE,
          text |-> _rearrange_functions_and_classes(
                       original_code, EXTENDED_FILE_PATTERN(filename)),
          ret |-> "None", raised |-> FALSE]

\* _format_file that reads the file before it looks at the path.
FormatFileUnfiltered(filename, original_code) ==
    IF original_code = <<>>
    THEN [Skipped(original_code) EXCEPT !.opened = TRUE]
    ELSE IF ~(FILE_PATTERN(filename) \/ EXTENDED_FILE_PATTERN(filename))
    THEN [Skipped(original_code) EXCEPT !.opened = TRUE]
    ELSE IF SyntaxError(original_code, DOMAIN ast)
    THEN [Skipped(original_code) EXCEPT !.opened = TRUE, !.printed = TRUE]
    ELSE IF Raises(original_code, EXTENDED_FILE_PATTERN(filename))
    THEN [Skipped(original_code) EXCEPT !.opened = TRUE, !.ret = "None",
                                        !.raised = TRUE]
    ELSE [opened |-> TRUE, printed |-> FALSE, written |-> TRUE,
          text |-> _rearrange_functions_and_classes(
                       original_code, EXTENDED_FILE_PATTERN(filename)),
          ret |-> "None", raised |-> FALSE]

\* FunctionOrderingFormatter._format_file
FunctionFormatFile(filename, original_code) ==
    IF ~(FILE_PATTERN(filename) \/ EXTENDED_FILE_PATTERN(filename))
    THEN Skipped(original_code)
    ELSE IF original_code = <<>>
    THEN [Skipped(original_code) EXCEPT !.opened = TRUE]
    ELSE IF SyntaxError(original_code, DOMAIN ast)
    THEN [Skipped(original_code) EXCEPT !.opened = TRUE, !.printed = TRUE]
    ELSE IF Raises(original_code, EXTENDED_FILE_PATTERN(filename))
    THEN [Skipped(original_code) EXCEPT !.opened = TRUE, !.ret = "None",
                                        !.raised = TRUE]
    ELSE [opened |-> TRUE, printed |-> FALSE, written |-> TRUE,
          text |-> _rearrange_functions_and_classes(
                       original_code, EXTENDED_FILE_PATTERN(filename)),
          ret |-> "None", raised |-> FALSE]

\* ClassFunctionOrderingFormatter._format_file, the file given and returned
\* as the lines of the body of its class.
ClassFormatFile(filename, original_code) ==
    IF ~FILE_PATTERN(filename)
    THEN Skipped(original_code)
    ELSE IF original_code = <<>>
    THEN [Skipped(original_code) EXCEPT !.opened = TRUE]
    ELSE IF SyntaxError(original_code, ClassStatements)
    THEN [Skipped(original_code) EXCEPT !.opened = TRUE, !.printed = TRUE]
    ELSE [opened |-> TRUE, printed |-> FALSE, written |-> TRUE,
          text |-> ClassRearranged(original_code),
          ret |-> "None", raised |-> FALSE]

\* Python: a or b, on the values _format_file returns.
Or(a, b) == IF a = "True" THEN a ELSE b

----------------------------------------------------------------------------
(* BaseDocstringFormatter and IvyArrayDocstringFormatter: one docstring *)

STR_QUOTE_TYPES == <<"\"\"\"", "'''">>
RAW_QUOTE_TYPES == <<"r\"\"\"", "R\"\"\"", "r'''", "R'''">>
UCODE_QUOTE_TYPES == <<"u\"\"\"", "U\"\"\"", "u'''", "U'''">>
QUOTE_TYPES == STR_QUOTE_TYPES \o RAW_QUOTE_TYPES \o UCODE_QUOTE_TYPES

\* Python: str.lstrip(), str.rstrip() and str.strip().
IsSpace(ch) == ch \in {" ", "\n", "\t"}

LStrip(s) ==
    LET at == {i \in 1..Len(s) : ~IsSpace(SubSeq(s, i, i))}
    IN IF at = {} THEN ""
       ELSE SubSeq(s, CHOOSE i \in at : \A j \in at : i <= j, Len(s))

RStrip(s) ==
    LET at == {i \in 1..Len(s) : ~IsSpace(SubSeq(s, i, i))}
    IN IF at = {} THEN ""
       ELSE SubSeq(s, 1, CHOOSE i \in at : \A j \in at : j <= i)

Strip(s) == LStrip(RStrip(s))

\* Python: s.find(sub, start), counted from 1; 0 when sub is not found.
Find(s, sub, start) ==
    LET at == {i \in start..(Len(s) - Len(sub) + 1) :
                  SubSeq(s, i, i + Len(sub) - 1) = sub}
    IN IF at = {} THEN 0 ELSE Min(at)

RECURSIVE ReplaceFrom(_, _, _, _)
\* s[start:].replace(old, new), start counted from 1.
ReplaceFrom(s, old, new, start) ==
    LET i == Find(s, old, start)
    IN IF i = 0 THEN SubSeq(s, start, Len(s))
       ELSE SubSeq(s, start, i - 1) \o new
                \o ReplaceFrom(s, old, new, i + Len(old))

\* Python: s.replace(old, new).
Replace(s, old, new) == ReplaceFrom(s, old, new, 1)

RECURSIVE Spaces(_)
\* Python: n * " ".
Spaces(n) == IF n = 0 THEN "" ELSE " " \o Spaces(n - 1)

\* What a call that may raise gives: the exception raised, or the string
\* returned.
Raised == [raised |-> TRUE, string |-> ""]
Returned(string) == [raised |-> FALSE, string |-> string]

\* _do_strip_docstring: the contents and the opening quote, or ValueError.
_do_strip_docstring(indentation, token_string) ==
    LET docstring == Strip(token_string)
        closing(quote) ==
            IF quote \in Range(RAW_QUOTE_TYPES \o UCODE_QUOTE_TYPES)
            THEN SubSeq(quote, 2, Len(quote)) ELSE quote
        hits == {k \in 1..Len(QUOTE_TYPES) :
                    /\ StartsWith(docstring, QUOTE_TYPES[k])
                    /\ EndsWith(docstring, closing(QUOTE_TYPES[k]))}
        quote == QUOTE_TYPES[Min(hits)]
    IN IF hits = {} THEN [raised |-> TRUE, contents |-> "", open_quote |-> ""]
       ELSE [raised |-> FALSE,
             contents |->
                 Replace(Strip(SubSeq(docstring, Len(quote) + 1,
                                      Len(docstring) - Len(closing(quote)))),
                         "\n" \o Spaces(indentation), "\n"),
             open_quote |-> Replace(quote, "'", "\"")]

\* The regular expression ^.+\n-+\n of _do_split_sections matches at i: a
\* line that is not empty, then a line of dashes and its line break.
TitleAt(docstring, i) ==
    LET title_end == Find(docstring, "\n", i)
        dashes_end == Find(docstring, "\n", title_end + 1)
    IN /\ i = 1 \/ SubSeq(docstring, i - 1, i - 1) = "\n"
       /\ title_end > i
       /\ dashes_end > title_end + 1
       /\ \A j \in (title_end + 1)..(dashes_end - 1) :
              SubSeq(docstring, j, j) = "-"

\* Where the first section title at or after start begins; 0 for none.
NextTitle(docstring, start) ==
    LET at == {i \in start..Len(docstring) : TitleAt(docstring, i)}
    IN IF at = {} THEN 0 ELSE Min(at)

\* Where the title that begins at i ends: its second line break.
TitleEnd(docstring, i) ==
    Find(docstring, "\n", Find(docstring, "\n", i) + 1)

\* len(self._do_split_sections(docstring))
NumberOfSections(docstring) ==
    Cardinality({i \in 1..Len(docstring) :
                    /\ TitleAt(docstring, i)
                    /\ \A j \in 1..(i - 1) :
                           TitleAt(docstring, j)
                               => TitleEnd(docstring, j) < i}) + 1

RECURSIVE Closing(_, _, _)
\* The loop of find_closing_parentheses from index i on, count parentheses
\* open: the index of the parenthesis that closes them, 0 for none.
Closing(string, i, count) ==
    IF i > Len(string) THEN 0
    ELSE IF SubSeq(string, i, i) = "("
    THEN Closing(string, i + 1, count + 1)
    ELSE IF SubSeq(string, i, i) = ")"
    THEN IF count = 1 THEN i ELSE Closing(string, i + 1, count - 1)
    ELSE Closing(string, i + 1, count)

\* find_closing_parentheses(string, start), indices counted from 1: the
\* loop begins one after start; 0 stands for the ValueError.
find_closing_parentheses(string, start) == Closing(string, start + 1, 1)

\* black.format_str raises InvalidInput on a code that is no Python: here,
\* a call whose parentheses and brackets do not pair up.
InvalidCall(code) ==
    \/ Cardinality({i \in 1..Len(code) : SubSeq(code, i, i) = "("})
           # Cardinality({i \in 1..Len(code) : SubSeq(code, i, i) = ")"})
    \/ Cardinality({i \in 1..Len(code) : SubSeq(code, i, i) = "["})
           # Cardinality({i \in 1..Len(code) : SubSeq(code, i, i) = "]"})

RECURSIVE AfterCommaFrom(_, _)
\* The code from start on with one space after every comma.
AfterCommaFrom(code, start) ==
    LET i == Find(code, ",", start)
        rest == {j \in (i + 1)..Len(code) : ~IsSpace(SubSeq(code, j, j))}
    IN IF i = 0 THEN SubSeq(code, start, Len(code))
       ELSE IF rest = {} THEN SubSeq(code, start, i)
       ELSE SubSeq(code, start, i) \o " " \o AfterCommaFrom(code, Min(rest))

\* black.format_str(code, mode=black.Mode(line_length=50)).strip() on a call
\* of literals that fits one line: one space after every comma.
AfterComma(code) == AfterCommaFrom(code, 1)

RECURSIVE FormatOutput(_, _)
\* The while loop of _do_format_section over one output block, from
\* pointer on: every ivy.array(...) above the first empty line is written
\* as black writes it.
FormatOutput(partition, pointer) ==
    IF pointer > Len(partition) THEN Returned("")
    ELSE LET found == Find(partition, "ivy.array(", pointer)
             comment == Find(partition, "\n\n", pointer)
             closing == find_closing_parentheses(partition, found + 10)
         IN IF found = 0 \/ (comment # 0 /\ found > comment)
            THEN Returned(SubSeq(partition, pointer, Len(partition)))
            ELSE IF \/ closing = 0
                    \/ InvalidCall(SubSeq(partition, found, closing))
            THEN Raised
            ELSE LET rest == FormatOutput(partition, closing + 1)
                 IN IF rest.raised THEN Raised
                    ELSE Returned(
                             SubSeq(partition, pointer, found - 1)
                                 \o AfterComma(SubSeq(partition, found, closing))
                                 \o rest.string)

\* IvyArrayDocstringFormatter._do_format_section on a section with one
\* input line (>>> ...): the output block is what follows that line.
_do_format_section(section) ==
    LET title == Strip(SubSeq(section, 1, Find(section, "\n", 1) - 1))
        input == Find(section, "\n>>> ", 1)
        output == Find(section, "\n", input + 1) + 1
        partition == SubSeq(section, output, Len(section))
        formatted == FormatOutput(partition, 1)
    IN IF ~StartsWith(title, "Example") THEN Returned(section)
       ELSE IF input = 0 \/ output = 1 THEN Returned(section)
       ELSE IF StartsWith(partition, "\n") THEN Returned(section)
       ELSE IF Find(SubSeq(partition, 1,
                           IF Find(partition, "\n\n", 1) = 0
                           THEN Len(partition)
                           ELSE Find(partition, "\n\n", 1) - 1),
                    "ivy.array(", 1) = 0
       THEN Returned(section)
       ELSE IF formatted.raised THEN Raised
       ELSE Returned(SubSeq(section, 1, output - 1) \o formatted.string)

RECURSIVE FormatSections(_, _)
\* The sections of _do_format_docstring from the title at i on, each
\* formatted and joined.
FormatSections(docstring, i) ==
    LET next == NextTitle(docstring, TitleEnd(docstring, i) + 1)
        end == IF next = 0 THEN Len(docstring) ELSE next - 1
        section == _do_format_section(SubSeq(docstring, i, end))
    IN IF section.raised THEN Raised
       ELSE IF next = 0 THEN section
       ELSE LET rest == FormatSections(docstring, next)
            IN IF rest.raised THEN Raised
               ELSE Returned(section.string \o rest.string)

\* _do_format_docstring: the summary and description as they are, then the
\* sections.
_do_format_docstring(docstring) ==
    LET first == NextTitle(docstring, 1)
    IN IF first = 0 THEN Returned(docstring)
       ELSE LET sections == FormatSections(docstring, first)
            IN IF sections.raised THEN Raised
               ELSE Returned(SubSeq(docstring, 1, first - 1)
                                 \o sections.string)

RECURSIVE RStripLinesFrom(_, _)
\* The lines of contents from start on, each without the white space it
\* ends with.
RStripLinesFrom(contents, start) ==
    LET i == Find(contents, "\n", start)
    IN IF i = 0 THEN RStrip(SubSeq(contents, start, Len(contents)))
       ELSE RStrip(SubSeq(contents, start, i - 1)) \o "\n"
                \o RStripLinesFrom(contents, i + 1)

\* "\n".join([line.rstrip() for line in contents.split("\n")])
RStripLines(contents) == RStripLinesFrom(contents, 1)

\* The one element of a set of one element. {e : x \in {value}} gives x the
\* value once, however often e reads it.
The(S) == CHOOSE x \in S : TRUE

\* _do_format_docstring_node from line 143 on, given what
\* _do_strip_docstring and _do_format_docstring returned.
FormattedDocstring(indentation, token_string, stripped, formatted) ==
    LET contents == formatted.string
        open_quote == stripped.open_quote
    IN IF stripped.raised THEN Raised
       ELSE IF StrIn(QUOTE_TYPES[1], stripped.contents)
       THEN Returned(token_string)
       ELSE IF formatted.raised THEN Raised
       ELSE IF ~StrIn("\n\n", contents) /\ NumberOfSections(contents) = 1
       THEN Returned(open_quote
                         \o Strip(Replace(contents, "\n", "\n" \o indentation))
                         \o open_quote)
       ELSE Returned(open_quote \o "\n"
                         \o RStripLines(indentation
                                \o Replace(contents, "\n", "\n" \o indentation))
                         \o "\n" \o indentation \o "\"\"\"")

\* _do_format_docstring_node: the docstring formatted, or the exception of
\* one of the calls it makes.
_do_format_docstring_node(indentation, token_string) ==
    The(UNION {{FormattedDocstring(indentation, token_string, stripped,
                                   formatted) :
                   formatted \in {_do_format_docstring(stripped.contents)}} :
               stripped \in {_do_strip_docstring(Len(indentation),
                                                 token_string)}})

----------------------------------------------------------------------------
(* BaseDocstringFormatter._format_file: the tokens of one file *)

\* Lines of a file of docstrings; a string literal of several lines is one
\* line here. Doc strings: in the style of the formatter, in single quotes,
\* with an ivy.array( that is never closed, with an ivy.array(...) black
\* rewrites.
D_OK == "\"\"\"Doc.\"\"\""
D_SINGLE == "'''Doc.'''"
D_OPEN == "\"\"\"\nSum.\n\nExamples\n--------\n>>> x\nivy.array([1\n\"\"\""
D_ARRAY == "\"\"\"\nSum.\n\nExamples\n--------\n>>> x\nivy.array([1,2])\n\"\"\""
D_INDENTED == "    '''Doc.'''"
D_ASSIGNED == "x = '''Doc.'''"
OPEN_PARENTHESIS == "x = ("
DEF_F == "def f():"
COMMENT == "# c"

Token(type, string) == [type |-> type, string |-> string]

\* The tokens of one line, without INDENT, DEDENT and the line break.
line_tokens ==
    D_OK :> <<Token("STRING", D_OK)>>
 @@ D_SINGLE :> <<Token("STRING", D_SINGLE)>>
 @@ D_OPEN :> <<Token("STRING", D_OPEN)>>
 @@ D_ARRAY :> <<Token("STRING", D_ARRAY)>>
 @@ D_INDENTED :> <<Token("STRING", D_SINGLE)>>
 @@ D_ASSIGNED :>
        <<Token("NAME", "x"), Token("OP", "="), Token("STRING", D_SINGLE)>>
 @@ OPEN_PARENTHESIS :>
        <<Token("NAME", "x"), Token("OP", "="), Token("OP", "(")>>
 @@ DEF_F :>
        <<Token("NAME", "def"), Token("NAME", "f"), Token("OP", "("),
          Token("OP", ")"), Token("OP", ":")>>
 @@ COMMENT :> <<Token("COMMENT", COMMENT)>>
 @@ "x = 1" :> <<Token("NAME", "x"), Token("OP", "="), Token("NUMBER", "1")>>

DocstringLines == DOMAIN line_tokens

\* The parentheses a line leaves open.
Opened(line) ==
    Cardinality({k \in 1..Len(line_tokens[line]) :
                    line_tokens[line][k] = Token("OP", "(")})
        - Cardinality({k \in 1..Len(line_tokens[line]) :
                          line_tokens[line][k] = Token("OP", ")")})

RECURSIVE ParenLevel(_, _)
\* parenlev of the tokenizer when it reaches line row.
ParenLevel(lines, row) ==
    IF row = 1 THEN 0
    ELSE ParenLevel(lines, row - 1) + Opened(lines[row - 1])

\* The width of the white space a line begins with.
Column(line) == Len(line) - Len(LStrip(line))

CommentOnly(line) == line_tokens[line][1].type = "COMMENT"

\* The indentation of the block the tokenizer is in when it reaches line
\* row: that of the last line above that is no comment and stands outside
\* all parentheses.
Indent(lines, row) ==
    LET at == {j \in 1..(row - 1) :
                  ~CommentOnly(lines[j]) /\ ParenLevel(lines, j) = 0}
    IN IF at = {} THEN 0
       ELSE Column(lines[CHOOSE j \in at : \A n \in at : n <= j])

\* The tokens tokenize.generate_tokens yields for line row, as (type,
\* string, row of the line, width of the white space the line begins with).
LineTokens(lines, row) ==
    LET line == lines[row]
        at(token) == token @@ [row |-> row, column |-> Column(line)]
        indent == Indent(lines, row)
        block == IF ParenLevel(lines, row) > 0 \/ CommentOnly(line)
                 THEN indent ELSE Column(line)
        dent == IF block > indent
                THEN <<at(Token("INDENT", Spaces(Column(line))))>>
                ELSE IF block < indent THEN <<at(Token("DEDENT", ""))>>
                ELSE <<>>
        newline == IF ParenLevel(lines, row + 1) > 0 \/ CommentOnly(line)
                   THEN at(Token("NL", "\n"))
                   ELSE at(Token("NEWLINE", "\n"))
    IN dent
           \o [k \in 1..Len(line_tokens[line]) |-> at(line_tokens[line][k])]
           \o <<newline>>

\* tokenize.generate_tokens(file.readline): the tokens of the lines, then
\* DEDENT and ENDMARKER, or, at the end of a file with a parenthesis open,
\* TokenError for the exception the generator raises.
generate_tokens(lines) ==
    LET row == Len(lines) + 1
        at(token) == token @@ [row |-> row, column |-> 0]
    IN Flatten([k \in 1..Len(lines) |-> LineTokens(lines, k)])
           \o (IF ParenLevel(lines, row) > 0
                THEN <<at(Token("TokenError", ""))>>
                ELSE (IF Indent(lines, row) > 0
                      THEN <<at(Token("DEDENT", ""))>> ELSE <<>>)
                         \o <<at(Token("ENDMARKER", ""))>>)

\* _do_format_docstring_node for every STRING token of the lines and every
\* width of white space a line begins with, computed once.
FormattedNodes ==
    [token_string \in UNION {{line_tokens[line][k].string :
                                  k \in 1..Len(line_tokens[line])} :
                                 line \in DocstringLines} |->
        [column \in {Column(line) : line \in DocstringLines} |->
            _do_format_docstring_node(Spaces(column), token_string)]]

\* The tokens the for loop of _format_file handles: all, or those ahead of
\* the TokenError.
Handled(tokens) == {k \in 1..Len(tokens) : tokens[k].type # "TokenError"}

\* previous_token_type and only_comments_so_far when the loop is at token k.
previous_token_type(tokens, k) ==
    IF k = 1 THEN "None" ELSE tokens[k - 1].type

only_comments_so_far(tokens, k) ==
    \A j \in 1..(k - 1) : tokens[j].type \in {"COMMENT", "NEWLINE", "NL"}

\* The condition of lines 78 to 86: token k is formatted as a docstring.
IsDocstring(tokens, k) ==
    /\ tokens[k].type = "STRING"
    /\ \E q \in 1..Len(QUOTE_TYPES) :
           StartsWith(tokens[k].string, QUOTE_TYPES[q])
    /\ \/ previous_token_type(tokens, k) = "INDENT"
       \/ previous_token_type(tokens, k) = "NEWLINE"
       \/ only_comments_so_far(tokens, k)

\* The call of _do_format_docstring_node on token k.
FormattedNode(tokens, k) == FormattedNodes[tokens[k].string][tokens[k].column]

\* new_token_string of token k: the docstring formatted; the token as it is
\* when it is no docstring or the call raised.
new_token_string(tokens, k) ==
    IF IsDocstring(tokens, k) /\ ~FormattedNode(tokens, k).raised
    THEN FormattedNode(tokens, k).string
    ELSE tokens[k].string

\* The for loop of _format_file: changed, whether an error was printed,
\* modified_tokens, and whether TokenError ended the loop.
Tokens(tokens) ==
    [changed |->
         IF \E k \in Handled(tokens) :
                /\ IsDocstring(tokens, k)
                /\ \/ FormattedNode(tokens, k).raised
                   \/ new_token_string(tokens, k) # tokens[k].string
         THEN "True" ELSE "False",
     printed |->
         \E k \in Handled(tokens) :
             IsDocstring(tokens, k) /\ FormattedNode(tokens, k).raised,
     modified_tokens |->
         [k \in Handled(tokens) |->
             [tokens[k] EXCEPT !.string = new_token_string(tokens, k)]],
     token_error |-> Handled(tokens) # 1..Len(tokens)]

RECURSIVE Substitute(_, _, _, _)
\* One line as untokenize writes it: the text between the tokens as in the
\* line read, every STRING token of the line, from token k on, as its new
\* string.
Substitute(line, tokens, modified_tokens, k) ==
    IF k > Len(tokens) THEN line
    ELSE IF tokens[k].type # "STRING"
    THEN Substitute(line, tokens, modified_tokens, k + 1)
    ELSE Replace(Substitute(line, tokens, modified_tokens, k + 1),
                 tokens[k].string, modified_tokens[k].string)

\* untokenize.untokenize(modified_tokens), as the lines of the text.
untokenize(lines, modified_tokens) ==
    [row \in 1..Len(lines) |->
        Substitute(lines[row], line_tokens[lines[row]],
                   SelectSeq(modified_tokens,
                             LAMBDA token :
                                 /\ token.row = row
                                 /\ token.type \notin
                                        {"INDENT", "DEDENT", "NL", "NEWLINE"}),
                   1)]

\* _format_file from line 112 on, given what the for loop left: the file
\* is written when changed is true and no TokenError was raised.
AfterLoop(lines, loop) ==
    LET written == ~loop.token_error /\ loop.changed = "True"
    IN [opened |-> TRUE, printed |-> loop.printed, written |-> written,
        text |-> IF written THEN untokenize(lines, loop.modified_tokens)
                 ELSE lines,
        ret |-> loop.changed, raised |-> FALSE]

\* BaseDocstringFormatter._format_file on a file of the given lines.
DocstringFormatFile(filename, lines) ==
    The({AfterLoop(lines, loop) :
            loop \in {Tokens(tokens) : tokens \in {generate_tokens(lines)}}})

----------------------------------------------------------------------------
(* The formatter run again and again on one file *)

\* original_source_code: the text the latest call was given (before any
\* call, the file as it stands); reordered_code: what that call returned;
\* extended: whether the path matches EXTENDED_FILE_PATTERN; runs: calls made.
\* source_code, class_code and class_runs are the same for the class
\* formatter: the class body given, the class body returned, calls made.
\* formatter, filenames, disk, changed, calls and outcome are one call of
\* format(): the formatter class, self.filenames, the text of every file,
\* the local changed, the calls of _format_file made so far, and whether
\* format() is running, has returned or was left by an exception.
VARIABLES original_source_code, extended, reordered_code, runs,
          source_code, class_code, class_runs,
          formatter, filenames, disk, changed, calls, outcome

function_vars == <<original_source_code, extended, reordered_code, runs>>
class_vars == <<source_code, class_code, class_runs>>
batch_vars == <<formatter, filenames, disk, changed, calls, outcome>>
vars == <<function_vars, class_vars, batch_vars>>

\* No call of format() is under way.
NoBatch ==
    /\ formatter = ""
    /\ filenames = <<>>
    /\ disk = <<>>
    /\ changed = "False"
    /\ calls = <<>>
    /\ outcome = "running"

\* Calls made on one file.
MaxRuns == 2

\* Source files: at most MaxLen lines, of which at most MaxComments are
\* comment lines, no statement twice.
SourceFiles ==
    {src \in UNION {[1..n -> Lines] : n \in 0..MaxLen} :
        /\ \A i, j \in 1..Len(src) :
               i # j /\ src[i] \in Statements => src[i] # src[j]
        /\ Cardinality({i \in 1..Len(src) : IsComment(src[i])}) <= MaxComments}

Init ==
    /\ original_source_code \in SourceFiles
    /\ extended \in BOOLEAN
    /\ reordered_code = <<>>
    /\ runs = 0
    /\ source_code = <<>>
    /\ class_code = <<>>
    /\ class_runs = 0
    /\ NoBatch

\* The text the next call is given: the file, which after a call holds what
\* the call returned.
FileText == IF runs = 0 THEN original_source_code ELSE reordered_code

\* _rearrange_functions_and_classes(text, False)
Rearrange ==
    /\ runs < MaxRuns
    /\ ~extended
    /\ ~Raises(FileText, FALSE)
    /\ original_source_code' = FileText
    /\ reordered_code' = _rearrange_functions_and_classes(FileText, FALSE)
    /\ runs' = runs + 1
    /\ UNCHANGED <<extended, class_vars, batch_vars>>

\* _rearrange_functions_and_classes(text, True)
ExtendedRearrange ==
    /\ runs < MaxRuns
    /\ extended
    /\ ~Raises(FileText, TRUE)
    /\ original_source_code' = FileText
    /\ reordered_code' = _rearrange_functions_and_classes(FileText, TRUE)
    /\ runs' = runs + 1
    /\ UNCHANGED <<extended, class_vars, batch_vars>>

Next == Rearrange \/ ExtendedRearrange

Spec == Init /\ [][Next]_vars

\* Statements in the body of the class of a file.
MaxMembers == 3

\* Class bodies: one to MaxMembers statements, no statement twice.
ClassBodies ==
    {body \in UNION {[1..n -> ClassStatements] : n \in 1..MaxMembers} :
        \A i, j \in 1..Len(body) : i # j => body[i] # body[j]}

ClassInit ==
    /\ source_code \in ClassBodies
    /\ class_code = <<>>
    /\ class_runs = 0
    /\ original_source_code = <<>>
    /\ extended = FALSE
    /\ reordered_code = <<>>
    /\ runs = 0
    /\ NoBatch

\* The class body the next call is given.
ClassText == IF class_runs = 0 THEN source_code ELSE class_code

\* ClassFunctionOrderingFormatter._rearrange_functions_and_classes(text)
ClassRearrange ==
    /\ class_runs < MaxRuns
    /\ source_code' = ClassText
    /\ class_code' = ClassRearranged(ClassText)
    /\ class_runs' = class_runs + 1
    /\ UNCHANGED <<function_vars, batch_vars>>

ClassNext == ClassRearrange

ClassSpec == ClassInit /\ [][ClassNext]_vars

\* Lines of a file of classes.
MaxHierarchy == 4

\* Files of a class hierarchy: at most MaxHierarchy lines, of which at most
\* MaxComments are comment lines, no statement twice.
HierarchyFiles ==
    LET lines == {CLASS_B, CLASS_A, CLASS_D, CLASS_E, CLASS_B_A, PUBLIC,
                  "x = 1", NOTE}
    IN {src \in UNION {[1..n -> lines] : n \in 0..MaxHierarchy} :
           /\ \A i, j \in 1..Len(src) :
                  i # j /\ ~IsComment(src[i]) => src[i] # src[j]
           /\ Cardinality({i \in 1..Len(src) : IsComment(src[i])})
                  <= MaxComments}

HierarchyInit ==
    /\ original_source_code \in HierarchyFiles
    /\ extended \in BOOLEAN
    /\ reordered_code = <<>>
    /\ runs = 0
    /\ source_code = <<>>
    /\ class_code = <<>>
    /\ class_runs = 0
    /\ NoBatch

HierarchySpec == HierarchyInit /\ [][Next]_vars

\* Lines of a file of sections, and the comment lines among them.
MaxSection == 4
MaxHeaders == 2

\* Files of sections: at most MaxSection lines, of which at most MaxHeaders
\* are comment lines, no statement twice.
SectionFiles ==
    LET lines == {ARRAY_API_HEADER, NOTE, PUBLIC, ADD, HELPER, OBJ_ATTR,
                  "v = public()"}
    IN {src \in UNION {[1..n -> lines] : n \in 0..MaxSection} :
           /\ \A i, j \in 1..Len(src) :
                  i # j /\ ~IsComment(src[i]) => src[i] # src[j]
           /\ Cardinality({i \in 1..Len(src) : IsComment(src[i])})
                  <= MaxHeaders}

SectionInit ==
    /\ original_source_code \in SectionFiles
    /\ extended \in BOOLEAN
    /\ reordered_code = <<>>
    /\ runs = 0
    /\ source_code = <<>>
    /\ class_code = <<>>
    /\ class_runs = 0
    /\ NoBatch

SectionSpec == SectionInit /\ [][Next]_vars

\* Files in one call of format().
MaxFiles == 2

Filenames ==
    {FRONTEND_FILE, FRONTEND_INIT, BACKEND_FILE, TEST_HELPER, SETUP_FILE,
     NESTED_FILE}

\* The texts of the files of the function formatter: empty, no Python,
\* already in order, out of order, and two classes in a cycle.
FunctionFiles ==
    {<<>>, <<INVALID>>, <<PUBLIC>>, <<PUBLIC, HELPER>>, <<CLASS_A, CLASS_B_A>>}

\* The class bodies of the files of the class formatter: empty file, no
\* Python, one method, and one method below the two literals.
ClassFiles ==
    {<<>>, <<INVALID>>, <<COMPUTE>>,
     <<WriteDocstring(PROPERTIES), Repr(INSTANCE_METHODS), COMPUTE>>}

BatchInit ==
    /\ formatter \in {"FunctionOrderingFormatter",
                      "ClassFunctionOrderingFormatter"}
    /\ filenames \in
           {names \in UNION {[1..n -> Filenames] : n \in 0..MaxFiles} :
               \A i, j \in 1..Len(names) : i # j => names[i] # names[j]}
    /\ disk \in [Range(filenames) ->
                    IF formatter = "FunctionOrderingFormatter"
                    THEN FunctionFiles ELSE ClassFiles]
    /\ changed = "False"
    /\ calls = <<>>
    /\ outcome = "running"
    /\ original_source_code = <<>>
    /\ extended = FALSE
    /\ reordered_code = <<>>
    /\ runs = 0
    /\ source_code = <<>>
    /\ class_code = <<>>
    /\ class_runs = 0

\* One turn of the loop of format(): the call of _format_file on the next
\* filename, and changed = self._format_file(filename) or changed. An
\* exception that leaves _format_file leaves format() as well.
Format(filename, call) ==
    /\ calls' = Append(calls,
                       [filename |-> filename, before |-> disk[filename],
                        opened |-> call.opened, printed |-> call.printed,
                        written |-> call.written, after |-> call.text,
                        ret |-> call.ret, raised |-> call.raised])
    /\ disk' = [disk EXCEPT ![filename] = call.text]
    /\ changed' = IF call.raised THEN changed ELSE Or(call.ret, changed)
    /\ outcome' = IF call.raised THEN "raised" ELSE outcome
    /\ UNCHANGED <<formatter, filenames, function_vars, class_vars>>

FunctionFormat ==
    /\ outcome = "running"
    /\ formatter = "FunctionOrderingFormatter"
    /\ Len(calls) < Len(filenames)
    /\ LET filename == filenames[Len(calls) + 1]
       IN Format(filename, FunctionFormatFile(filename, disk[filename]))

ClassFormat ==
    /\ outcome = "running"
    /\ formatter = "ClassFunctionOrderingFormatter"
    /\ Len(calls) < Len(filenames)
    /\ LET filename == filenames[Len(calls) + 1]
       IN Format(filename, ClassFormatFile(filename, disk[filename]))

\* return changed
FormatReturn ==
    /\ outcome = "running"
    /\ Len(calls) = Len(filenames)
    /\ outcome' = "returned"
    /\ UNCHANGED <<formatter, filenames, disk, changed, calls,
                   function_vars, class_vars>>

BatchNext == FunctionFormat \/ ClassFormat \/ FormatReturn

BatchSpec == BatchInit /\ [][BatchNext]_vars

\* Lines of a file of docstrings.
MaxDocstringLines == 2

\* Files of docstrings: at most MaxDocstringLines lines.
DocstringFiles ==
    UNION {[1..n -> DocstringLines] : n \in 0..MaxDocstringLines}

\* The formatter of docstrings looks at no path: two paths will do.
DocstringFilenames == {FRONTEND_FILE, SETUP_FILE}

DocstringInit ==
    /\ formatter = "IvyArrayDocstringFormatter"
    /\ filenames \in
           {names \in UNION {[1..n -> DocstringFilenames] : n \in 0..MaxFiles} :
               \A i, j \in 1..Len(names) : i # j => names[i] # names[j]}
    /\ disk \in [Range(filenames) -> DocstringFiles]
    /\ changed = "False"
    /\ calls = <<>>
    /\ outcome = "running"
    /\ original_source_code = <<>>
    /\ extended = FALSE
    /\ reordered_code = <<>>
    /\ runs = 0
    /\ source_code = <<>>
    /\ class_code = <<>>
    /\ class_runs = 0

\* One turn of the loop of BaseDocstringFormatter.format().
DocstringFormat ==
    /\ outcome = "running"
    /\ formatter = "IvyArrayDocstringFormatter"
    /\ Len(calls) < Len(filenames)
    /\ LET filename == filenames[Len(calls) + 1]
       IN Format(filename, DocstringFormatFile(filename, disk[filename]))

DocstringNext == DocstringFormat \/ FormatReturn

DocstringSpec == DocstringInit /\ [][DocstringNext]_vars

----------------------------------------------------------------------------
(* Properties of one call: its input against its output *)

\* The statements the latest call parsed, with their leading comments.
InputNodes ==
    _extract_all_nodes_with_comments(
        _remove_existing_headers(original_source_code))

\* The sort key of every statement of the latest call's input.
InputKeys == Keys(InputNodes)

\* Where a line stands in a text; 0 when it does not appear.
Pos(lines, line) ==
    LET at == {i \in 1..Len(lines) : lines[i] = line}
    IN IF at = {} THEN 0 ELSE Min(at)

\* The lines of a text that are statements of the given kind.
FunctionLines(lines, helper) ==
    {i \in 1..Len(lines) :
        /\ ~IsComment(lines[i])
        /\ ast[lines[i]].type = "FunctionDef"
        /\ IsHelper(ast[lines[i]]) = helper}

\* The names a top-level statement binds and the names it reads when it
\* runs at module level.
Binds(node) ==
    CASE node.type = "Assign" -> Range(NameTargets(node))
      [] IsDef(node) -> {node.name}
      [] node.type = "Import" -> Range(node.names)
      [] node.type = "Try" ->
             {node.body[k].id :
                 k \in {n \in 1..Len(node.body) : node.body[n].type = "Import"}}
      [] OTHER -> {}

Uses(node) ==
    CASE node.type = "Assign" -> Range(extract_names_from_assignment(node))
      [] IsDef(node) ->
             {node.decorator_list[k].id : k \in 1..Len(node.decorator_list)}
             \cup {node.bases[k].id : k \in 1..Len(node.bases)}
      [] OTHER -> {}

\* The category rank of an output statement, as the call's sort computed it.
RankOf(line) ==
    LET at == {k \in 1..Len(InputNodes) : Text(InputNodes[k]) = line}
    IN InputKeys[Min(at)][1]

\* The statements of the output, a string literal that leads it aside.
OutputStatements ==
    LET stmts == SelectSeq(reordered_code, LAMBDA line : ~IsComment(line))
    IN IF stmts # <<>> /\ IsStr(ast[stmts[1]]) THEN Tail(stmts) ELSE stmts

\* C1: formatting a file the formatter has already formatted leaves it as
\* it is: the second call returns its input.
C1_Idempotent == runs >= 2 => reordered_code = original_source_code

\* C2: an assignment that reads a name stands after the assignment that
\* binds it, when both are in the independent or assignment-dependent
\* category and the assignment dependency graph has no cycle.
C2_AssignmentDependencySafety ==
    runs >= 1 =>
        \A a, b \in 1..Len(InputNodes) :
            (/\ a # b
             /\ InputNodes[a].node.type = "Assign"
             /\ InputNodes[b].node.type = "Assign"
             /\ InputKeys[a][1] \in {10, 70}
             /\ InputKeys[b][1] \in {10, 70}
             /\ Binds(InputNodes[a].node) \cap Uses(InputNodes[b].node) # {}
             /\ ~NetworkXUnfeasible(
                    assignment_build_dependency_graph(InputNodes)))
            => Pos(reordered_code, Text(InputNodes[a]))
                   < Pos(reordered_code, Text(InputNodes[b]))

\* C3: a statement that reads a name at module level when it runs is never
\* moved above the statement that binds the name before it in the input.
C3_NoMoveAcrossDataDependency ==
    runs >= 1 =>
        \A i, j \in 1..Len(InputNodes) :
            (/\ i < j
             /\ Binds(InputNodes[i].node) \cap Uses(InputNodes[j].node) # {}
             /\ Pos(reordered_code, Text(InputNodes[i])) # 0
             /\ Pos(reordered_code, Text(InputNodes[j])) # 0)
            => Pos(reordered_code, Text(InputNodes[i]))
                   < Pos(reordered_code, Text(InputNodes[j]))

\* C4: in the output of either mode, the module docstring aside, the
\* category ranks of the statements never decrease from top to bottom.
C4_CategoryMonotonic ==
    runs >= 1 =>
        \A i, j \in 1..Len(OutputStatements) :
            i < j => RankOf(OutputStatements[i]) <= RankOf(OutputStatements[j])

\* C5: in either mode every statement of the input and every comment line
\* attached to it appears in the output.
C5_NoDeclarationDropped ==
    runs >= 1 =>
        \A k \in 1..Len(InputNodes) :
            Range(InputNodes[k].code) \subseteq Range(reordered_code)

\* C6: the output holds the Helpers header exactly when it holds a helper
\* function, holds it once, and holds it at the top of the first helper
\* function's block.
C6_HelpersHeader ==
    runs >= 1 =>
        LET headers == {i \in 1..Len(reordered_code) :
                            reordered_code[i] = HELPERS_HEADER}
            helpers == FunctionLines(reordered_code, TRUE)
        IN IF helpers = {} THEN headers = {}
           ELSE /\ Cardinality(headers) = 1
                /\ LeadingStart(reordered_code, Min(helpers)) \in headers

\* C7: in either mode the output holds the Main header, once and at the top
\* of the first public function's block, exactly when the module has a
\* public function and a helper-category function.
C7_MainHeader ==
    runs >= 1 =>
        LET mains == {i \in 1..Len(reordered_code) :
                          reordered_code[i] = MAIN_HEADER}
            publics == FunctionLines(reordered_code, FALSE)
            module == {InputNodes[k].node : k \in 1..Len(InputNodes)}
            functions == {node \in module : node.type = "FunctionDef"}
        IN IF /\ \E node \in functions : ~IsHelper(node)
              /\ \E node \in functions : IsHelper(node)
           THEN /\ Cardinality(mains) = 1
                /\ publics # {}
                /\ LeadingStart(reordered_code, Min(publics)) \in mains
           ELSE mains = {}

\* C8: a string literal that is the first statement of the module, the
\* empty string included, is the first line of the output.
C8_DocstringFirst ==
    (/\ runs >= 1
     /\ InputNodes # <<>>
     /\ IsStr(InputNodes[1].node)
     /\ Len(InputNodes[1].code) = 1)
    => /\ reordered_code # <<>>
       /\ reordered_code[1] = Text(InputNodes[1])

\* C9: standard mode turns import os, _helper, public, x = 1 into
\* import os, x = 1, the Helpers header, _helper, the Main header, public.
C9_StandardScenario ==
    (/\ runs >= 1
     /\ ~extended
     /\ original_source_code = <<"import os", HELPER, PUBLIC, "x = 1">>)
    => reordered_code =
           <<"import os", "x = 1", HELPERS_HEADER, HELPER, MAIN_HEADER, PUBLIC>>

\* C10: a class body of the property value, the method compute and the
\* assignment y = self.value, in any order, comes out as the Properties
\* block with value, the Instance Methods block with compute, then y.
C10_ClassScenario ==
    (/\ class_runs >= 1
     /\ Len(source_code) = 3
     /\ Range(source_code) = {PROPERTY_VALUE, COMPUTE, "y = self.value"})
    => class_code =
           <<WriteDocstring(PROPERTIES), PROPERTY_VALUE,
             Repr(INSTANCE_METHODS), COMPUTE, "y = self.value">>

----------------------------------------------------------------------------
(* Properties of one call of format() *)

\* The path of a file matches the pattern of the formatter at work.
Matches(filename) ==
    IF formatter = "FunctionOrderingFormatter"
    THEN FILE_PATTERN(filename) \/ EXTENDED_FILE_PATTERN(filename)
    ELSE FILE_PATTERN(filename)

\* The text call k found in its file is no Python.
Invalid(k) ==
    SyntaxError(calls[k].before,
                IF formatter = "FunctionOrderingFormatter"
                THEN DOMAIN ast ELSE ClassStatements)

\* The calls of _format_file made so far are on the filenames in list
\* order, one call each.
InListOrder == \A k \in 1..Len(calls) : calls[k].filename = filenames[k]

\* C11: _format_file writes the file exactly when the reordered text
\* differs from the text it read.
C11_WriteIfChanged ==
    \A k \in 1..Len(calls) :
        calls[k].written <=> calls[k].after # calls[k].before

\* C12: format() returns True exactly when the run changed the content of
\* some file, and _format_file returns True for a file it reordered and
\* rewrote.
C12_ChangedSignal ==
    /\ outcome = "returned" =>
           (changed = "True"
                <=> \E k \in 1..Len(calls) : calls[k].after # calls[k].before)
    /\ \A k \in 1..Len(calls) : calls[k].written => calls[k].ret = "True"

C14_NoFatalFailure ==
    \A k \in 1..Len(calls) : ~Invalid(k) => ~calls[k].raised

\* C15: for a filename that matches no pattern of the formatter,
\* _format_file returns False and neither opens, reads or writes the file
\* nor raises nor prints.
C15_PathFilter ==
    \A k \in 1..Len(calls) :
        ~Matches(calls[k].filename) =>
            /\ calls[k].ret = "False"
            /\ ~calls[k].opened
            /\ ~calls[k].written
            /\ ~calls[k].printed
            /\ ~calls[k].raised
            /\ calls[k].after = calls[k].before

\* _format_file was called with a path that matches no pattern, on a file
\* that is no Python and on a file that is out of order.
C15_Witness ==
    /\ \E k \in 1..Len(calls) : ~Matches(calls[k].filename) /\ Invalid(k)
    /\ \E k \in 1..Len(calls) :
           /\ ~Matches(calls[k].filename)
           /\ calls[k].before \in {<<PUBLIC, HELPER>>, <<COMPUTE>>}

----------------------------------------------------------------------------
(* Properties of the order of classes *)

\* The positions of the classes among the statements of the input.
InputClasses ==
    {k \in 1..Len(InputNodes) : InputNodes[k].node.type = "ClassDef"}

\* The names of the classes the module defines.
ClassNames == {InputNodes[k].node.name : k \in InputClasses}

\* The bare names among the bases of the class at position k.
BaseNames(k) ==
    LET bases == InputNodes[k].node.bases
    IN {bases[n].id : n \in {b \in 1..Len(bases) : bases[b].type = "Name"}}

\* Where the class at position k of the input stands in the output.
OutputPos(k) == Pos(reordered_code, Text(InputNodes[k]))

\* C16: a class stands in the output before every class of the module that
\* lists it by bare name among its bases, whatever their order in the input
\* and their names, when the graph of bases has no cycle.
C16_InheritanceOrder ==
    runs >= 1 =>
        \A b, d \in InputClasses :
            InputNodes[b].node.name \in BaseNames(d)
                => /\ OutputPos(b) > 0
                   /\ OutputPos(b) < OutputPos(d)

\* A derived class stood above its base in the input, comes before it in
\* the order of names, and the call put the base first.
C16_Witness ==
    /\ runs >= 1
    /\ Pos(original_source_code, CLASS_D) > 0
    /\ Pos(original_source_code, CLASS_D) < Pos(original_source_code, CLASS_A)
    /\ Pos(original_source_code, CLASS_A) < Pos(original_source_code, CLASS_B)
    /\ Pos(reordered_code, CLASS_B) < Pos(reordered_code, CLASS_A)
    /\ Pos(reordered_code, CLASS_A) < Pos(reordered_code, CLASS_D)

\* C17: a class with a base that is no class of the module stands in the
\* output after every class whose bases are all classes of the module.
C17_FailOpenClassOrder ==
    runs >= 1 =>
        \A e, c \in InputClasses :
            (/\ BaseNames(e) \ ClassNames # {}
             /\ BaseNames(c) \subseteq ClassNames)
            => OutputPos(c) < OutputPos(e)

----------------------------------------------------------------------------
(* Properties of the body the class formatter returns *)

\* The statements of the class body the latest call was given, and of the
\* body it returned.
InputBody == [k \in 1..Len(source_code) |-> class_ast[source_code[k]]]

OutputBody == [k \in 1..Len(class_code) |-> class_ast[class_code[k]]]

\* The names the assignments of the input body bind.
SiblingTargets == UNION {Range(NameTargets(InputBody[k])) :
                            k \in {n \in 1..Len(InputBody) :
                                      InputBody[n].type = "Assign"}}

\* The category of a statement of a class body: 1 for an assignment to a
\* name whose right-hand side reads no sibling target, 2 for a property
\* accessor, 3 for any other method, 4 for an assignment to a name whose
\* right-hand side reads a sibling target, 0 for any other statement.
Category(node) ==
    IF node.type = "FunctionDef"
    THEN IF has_property_decorators(node) THEN 2 ELSE 3
    ELSE IF node.type = "Assign" /\ node.targets[1].type = "Name"
    THEN IF Range(extract_names_from_assignment_inside_class(node))
                \cap SiblingTargets = {}
         THEN 1 ELSE 4
    ELSE 0

\* C18: in the body the class reorder returns, independent assignments
\* stand before all property accessors and instance methods, property
\* accessors before instance methods, and dependent assignments after all
\* instance methods.
C18_ClassBodyCategoryOrder ==
    class_runs >= 1 =>
        \A i, j \in 1..Len(OutputBody) :
            (/\ Category(OutputBody[i]) # 0
             /\ Category(OutputBody[j]) # 0
             /\ Category(OutputBody[i]) < Category(OutputBody[j]))
            => i < j

\* C19: a docstring that is the first statement of the class body is the
\* first statement of the body returned.
C19_ClassDocstringFirst ==
    (class_runs >= 1 /\ IsStr(InputBody[1]))
        => class_code[1] = WriteDocstring(InputBody[1].s)

\* C20: every statement of the class body given is in the body returned
\* exactly once.
C20_ClassMemberConservation ==
    class_runs >= 1 =>
        \A k \in 1..Len(InputBody) :
            Cardinality({n \in 1..Len(OutputBody) :
                            OutputBody[n] = InputBody[k]}) = 1

\* C21: in the output of the standard reorder, two assignments of the same
\* category (the same rank and, for assignments bound to a helper, the same
\* helper) stand in the order they had in the input, whatever the
\* alphabetical order of their targets.
C21_StableAssignmentOrder ==
    (runs >= 1 /\ ~extended) =>
        \A i, j \in 1..Len(InputNodes) :
            (/\ i < j
             /\ InputNodes[i].node.type = "Assign"
             /\ InputNodes[j].node.type = "Assign"
             /\ InputKeys[i][1] = InputKeys[j][1]
             /\ InputKeys[i][2] = InputKeys[j][2])
            => Pos(reordered_code, Text(InputNodes[i]))
                   < Pos(reordered_code, Text(InputNodes[j]))

\* The name of a member of a class body: the name of a method, the first
\* target of an assignment to a name.
MemberName(node) ==
    IF node.type = "FunctionDef" THEN node.name ELSE node.targets[1].id

\* C22: in the body the class reorder returns, the members of one category
\* stand in alphabetical order of their names, whatever their order in the
\* body given.
C22_ClassBodyAlphabetical ==
    class_runs >= 1 =>
        \A i, j \in 1..Len(OutputBody) :
            (/\ i < j
             /\ Category(OutputBody[i]) # 0
             /\ Category(OutputBody[i]) = Category(OutputBody[j]))
            => ~StrLess(MemberName(OutputBody[j]), MemberName(OutputBody[i]))

----------------------------------------------------------------------------
(* Properties of files with attribute assignments and sections *)

\* A definition with a leading underscore reads the attribute path an
\* assignment binds: the path is in its dump.
ReadByHelper(node, nodes_with_comments) ==
    \E k \in 1..Len(nodes_with_comments), t \in 1..Len(node.targets) :
        /\ IsDef(nodes_with_comments[k].node)
        /\ StartsWith(nodes_with_comments[k].node.name, "_")
        /\ node.targets[t].type = "Attribute"
        /\ StrIn(DumpExpr(node.targets[t]), Dump(nodes_with_comments[k].node))

\* C23: in the standard mode an assignment to an attribute path that no
\* helper reads gets the attribute category (5.5) and stands in the output
\* before every helper function and every public function, with or without
\* a leading-underscore definition in the module.
C23_AttributeAssignmentBeforeFunctions ==
    (runs >= 1 /\ ~extended) =>
        \A k \in 1..Len(InputNodes) :
            (/\ _is_assignment_target_an_attribute(InputNodes[k].node)
             /\ ~ReadByHelper(InputNodes[k].node, InputNodes))
            => /\ InputKeys[k][1] = 55
               /\ \A i \in FunctionLines(reordered_code, TRUE)
                           \cup FunctionLines(reordered_code, FALSE) :
                      Pos(reordered_code, Text(InputNodes[k])) < i

\* A comment line that starts with one of section_headers.
IsSectionHeader(line) == IsComment(line) /\ MatchingHeader(<<line>>) # ""

\* The section a line of a text stands in: the header of the last section
\* header line above it, "" when there is none.
HeaderAbove(lines, i) ==
    LET at == {k \in 1..(i - 1) : IsSectionHeader(lines[k])}
    IN IF at = {} THEN ""
       ELSE MatchingHeader(<<lines[CHOOSE k \in at : \A n \in at : n <= k]>>)

\* The lines of a text that are public functions.
PublicLines(lines) == FunctionLines(lines, FALSE)

\* Every section header line of a text stands right above a public function.
HeadersAbovePublic(lines) ==
    \A k \in 1..Len(lines) :
        IsSectionHeader(lines[k]) => (k + 1) \in PublicLines(lines)

\* C24: in the extended mode, on a file whose section headers each stand
\* right above a public function, every public function of the input is in
\* the output exactly once, under the section header it stood under in the
\* input; the sections keep their order, the header of a section stands
\* once in the output, and the functions of a section are in alphabetical
\* order of their names. This also when one header stands above more than
\* one function.
C24_SectionStructure ==
    (runs >= 1 /\ extended /\ HeadersAbovePublic(original_source_code)) =>
        /\ \A i \in PublicLines(original_source_code) :
               /\ Cardinality({n \in PublicLines(reordered_code) :
                      reordered_code[n] = original_source_code[i]}) = 1
               /\ \A n \in PublicLines(reordered_code) :
                      reordered_code[n] = original_source_code[i]
                          => HeaderAbove(reordered_code, n)
                                 = HeaderAbove(original_source_code, i)
               /\ HeaderAbove(original_source_code, i) # ""
                      => Cardinality({n \in 1..Len(reordered_code) :
                             reordered_code[n]
                                 = HeaderAbove(original_source_code, i)}) = 1
        /\ \A i, j \in PublicLines(original_source_code) :
               (/\ i < j
                /\ HeaderAbove(original_source_code, i)
                       # HeaderAbove(original_source_code, j)
                /\ \A k \in 1..i :
                       HeaderAbove(original_source_code, k)
                           # HeaderAbove(original_source_code, j))
               => Pos(reordered_code, original_source_code[i])
                      < Pos(reordered_code, original_source_code[j])
        /\ \A n, m \in PublicLines(reordered_code) :
               (/\ n < m
                /\ HeaderAbove(reordered_code, n)
                       = HeaderAbove(reordered_code, m))
               => ~StrLess(ast[reordered_code[m]].name,
                           ast[reordered_code[n]].name)

\* C25: in the extended mode an assignment the first pass puts after the
\* public functions (ranks 5.5 to 7: attribute, bound to a helper, reading
\* a function or class, reading an assignment) stands after every public
\* function of the output, with or without a helper in the module.
C25_AssignmentsStayAfterPublic ==
    (runs >= 1 /\ extended) =>
        \A k \in 1..Len(InputNodes) :
            (/\ InputNodes[k].node.type = "Assign"
             /\ InputKeys[k][1] \in {55, 60, 70})
            => \A n \in PublicLines(reordered_code) :
                   n < Pos(reordered_code, Text(InputNodes[k]))

----------------------------------------------------------------------------
(* Properties of one call of the docstring formatter's _format_file *)

\* Call k rewrote its file and left a docstring token with a new text.
RewrittenWithNewDocstring(k) ==
    /\ calls[k].written
    /\ calls[k].after # calls[k].before

\* C26: _format_file of the docstring formatter returns True exactly when
\* it rewrote the file with a docstring token whose text is new; a file
\* whose content is left as it was, because formatting a docstring raised
\* or because tokenizing raised TokenError, gives False.
C26_DocstringChangedFlag ==
    formatter = "IvyArrayDocstringFormatter" =>
        \A k \in 1..Len(calls) :
            /\ calls[k].ret = "True" <=> RewrittenWithNewDocstring(k)
            /\ calls[k].after = calls[k].before => calls[k].ret = "False"

====
